---- MODULE Spec2Model ----
(***************************************************************************)
(* Script-to-ordered-audio pipeline of atlas-of-ai.py:                     *)
(*   audio-podcast-workflow.py   PodcastScriptProcessor (parse, synthesis) *)
(*   cutting-podcast-workflow.py AudioConcatenator (assembly)              *)
(* Strings are sequences of one-character strings, so that the regular     *)
(* expressions, str.strip, str.lower, sorted and int are modelled by what  *)
(* they do to characters.  The token "U+00E9" stands for the one           *)
(* character e-acute (a non-ASCII letter).                                 *)
(***************************************************************************)
EXTENDS Integers, Sequences, FiniteSets, TLC

VARIABLES
    lines,              \* PodcastScriptProcessor.lines (the script)
    voice_map,          \* PodcastScriptProcessor.voice_map
    speaker_names,      \* PodcastScriptProcessor.speaker_names
    speaker_orders,     \* PodcastScriptProcessor.speaker_orders
    lines_per_speaker,  \* PodcastScriptProcessor.lines_per_speaker
    index_tracker,      \* generate_audio: index_tracker
    line_number,        \* generate_audio: the loop's line_number
    pc,                 \* position of the running process
    calls,              \* provider calls made so far (client.audio.speech.create)
    files,              \* the shared directory: file name -> [audio, ok]
    log,                \* messages emitted by the latest run (logging / print)
    audio_groups,       \* AudioConcatenator.audio_groups
    track,              \* combined_audio of the latest export_final_audio
    runs,               \* number of export_final_audio calls so far
    loaded,             \* the current AudioConcatenator has run export_final_audio
    first,              \* the latest run was the first of its AudioConcatenator
    prev_first,         \* so was the run before the latest
    dirty,              \* the directory's files changed since the latest run
    repeated,           \* the latest run found the directory as the run before left it
    prev_track,         \* combined_audio of the run before the latest
    synth_run,          \* number of PodcastScriptProcessor runs started so far
    before              \* the directory as the current synthesis run found it

vars == <<lines, voice_map, speaker_names, speaker_orders, lines_per_speaker,
          index_tracker, line_number, pc, calls, files, log, audio_groups,
          track, runs, loaded, first, prev_first, dirty, repeated, prev_track,
          synth_run, before>>

runVars == <<synth_run, before>>

synthVars == <<lines, voice_map, speaker_names, speaker_orders,
               lines_per_speaker, index_tracker, line_number, calls>>
asmVars == <<audio_groups, track, runs, loaded, first, prev_first, dirty,
             repeated, prev_track>>

(***************************************************************************)
(* Characters                                                              *)
(***************************************************************************)
\* The characters the model uses, in code point order (what sorted compares).
CodeOrder ==
    <<"\t", " ", "!", "-", ".", "0", "1", "2", "3", "9", ":",
      "A", "B", "[", "]", "_",
      "a", "b", "c", "e", "f", "h", "i", "k", "l", "n", "o", "p", "r", "t",
      "u", "v", "w", "y", "z", "U+00E9">>

Ord(c) == CHOOSE i \in 1..Len(CodeOrder) : CodeOrder[i] = c

AsciiDigits == {"0", "1", "2", "3", "4", "5", "6", "7", "8", "9"}
AsciiUpper == {"A", "B"}
AsciiLower == {"a", "b", "c", "e", "f", "h", "i", "k", "l", "n", "o", "p", "r",
               "t", "u", "v", "w", "y", "z"}
AsciiLetters == AsciiUpper \cup AsciiLower
\* str.strip() with no argument removes whitespace.
Whitespace == {" ", "\t"}
\* \w of a str pattern: Unicode letters and digits, and the underscore.
WordChars == AsciiLetters \cup AsciiDigits \cup {"_", "U+00E9"}

\* str.lower() on one character
LowerChar(c) ==
    CASE c = "A" -> "a"
      [] c = "B" -> "b"
      [] OTHER -> c

lower(s) == [i \in 1..Len(s) |-> LowerChar(s[i])]

DigitChar(d) == <<"0", "1", "2", "3", "4", "5", "6", "7", "8", "9">>[d + 1]
DigitValue(c) == CHOOSE d \in 0..9 : DigitChar(d) = c

\* str(n) for n >= 0: decimal, unpadded
RECURSIVE str(_)
str(n) == IF n < 10 THEN <<DigitChar(n)>>
          ELSE str(n \div 10) \o <<DigitChar(n % 10)>>

\* int(s) for a run of digits (leading zeros allowed)
RECURSIVE int(_)
int(s) == IF Len(s) = 0 THEN 0
          ELSE 10 * int(SubSeq(s, 1, Len(s) - 1)) + DigitValue(s[Len(s)])

\* str.strip()
RECURSIVE lstrip(_)
lstrip(s) == IF Len(s) > 0 /\ s[1] \in Whitespace THEN lstrip(Tail(s)) ELSE s
RECURSIVE rstrip(_)
rstrip(s) == IF Len(s) > 0 /\ s[Len(s)] \in Whitespace
             THEN rstrip(SubSeq(s, 1, Len(s) - 1)) ELSE s
strip(s) == rstrip(lstrip(s))

\* s < t as Python compares str: by code point, a proper prefix first
RECURSIVE StrLess(_, _)
StrLess(s, t) ==
    IF Len(t) = 0 THEN FALSE
    ELSE IF Len(s) = 0 THEN TRUE
    ELSE IF s[1] = t[1] THEN StrLess(Tail(s), Tail(t))
    ELSE Ord(s[1]) < Ord(t[1])

\* sorted(S) of a set of strings
RECURSIVE sorted(_)
sorted(S) ==
    IF S = {} THEN <<>>
    ELSE LET m == CHOOSE x \in S : \A y \in S \ {x} : StrLess(x, y)
         IN <<m>> \o sorted(S \ {m})

\* sorted(q) of a list of strings
RECURSIVE Insert(_, _)
Insert(q, x) ==
    IF Len(q) = 0 THEN <<x>>
    ELSE IF StrLess(x, q[1]) THEN <<x>> \o q
    ELSE <<q[1]>> \o Insert(Tail(q), x)
RECURSIVE sorted_list(_)
sorted_list(q) ==
    IF Len(q) = 0 THEN <<>> ELSE Insert(sorted_list(Tail(q)), q[1])

StartsWith(s, p) == Len(p) <= Len(s) /\ SubSeq(s, 1, Len(p)) = p

None == "None"

(***************************************************************************)
(* PodcastScriptProcessor: parsing (audio-podcast-workflow.py 48-67)       *)
(***************************************************************************)
NoMatch == [matched |-> FALSE, name |-> <<>>, rest |-> <<>>]

\* position of the first "]" of s at or after i, 0 when there is none
RECURSIVE FirstClose(_, _)
FirstClose(s, i) ==
    IF i > Len(s) THEN 0
    ELSE IF s[i] = "]" THEN i
    ELSE FirstClose(s, i + 1)

\* re.compile(r'^\[([^\]]+)\]:(.*)').match(s): group 1 runs to the first "]"
\* (it cannot cross one), must be non-empty and be followed by "]:".
line_pattern_match(s) ==
    LET j == IF Len(s) >= 1 /\ s[1] = "[" THEN FirstClose(s, 2) ELSE 0
    IN IF j >= 3 /\ j + 1 <= Len(s) /\ s[j + 1] = ":"
       THEN [matched |-> TRUE, name |-> SubSeq(s, 2, j - 1),
             rest |-> SubSeq(s, j + 2, Len(s))]
       ELSE NoMatch

\* re.compile(r'^\[([^\]]+)\]:').match(s)
name_pattern_match(s) == line_pattern_match(s)

\* The alternatives of '|'.join(re.escape(name) for name in names): the names
\* themselves, or the single empty alternative when there are no names.
Alternatives(names) == IF Len(names) = 0 THEN << <<>> >> ELSE names

\* re.compile(r'^\[(' + '|'.join(...) + r')\]:').match(s): the first
\* alternative, in the order joined, with which the whole pattern matches.
order_pattern_match(s, names) ==
    LET alts == Alternatives(names)
        hits == {i \in 1..Len(alts) :
                    StartsWith(s, <<"[">> \o alts[i] \o <<"]", ":">>)}
    IN IF hits = {} THEN NoMatch
       ELSE LET i == CHOOSE h \in hits : \A g \in hits : h <= g
            IN [matched |-> TRUE, name |-> alts[i], rest |-> <<>>]

\* _extract_speaker_names
_extract_speaker_names(ls) ==
    sorted({name_pattern_match(strip(ls[i])).name :
              i \in {k \in 1..Len(ls) : name_pattern_match(strip(ls[k])).matched}})

\* _extract_speaker_order
RECURSIVE _extract_speaker_order(_, _)
_extract_speaker_order(ls, names) ==
    IF Len(ls) = 0 THEN <<>>
    ELSE LET m == order_pattern_match(strip(ls[1]), names)
         IN (IF m.matched THEN <<m.name>> ELSE <<>>)
            \o _extract_speaker_order(Tail(ls), names)

\* the spoken lines of speaker `name`, in script order
RECURSIVE SpokenBy(_, _)
SpokenBy(ls, name) ==
    IF Len(ls) = 0 THEN <<>>
    ELSE LET m == line_pattern_match(strip(ls[1]))
         IN (IF m.matched /\ m.name = name THEN <<strip(m.rest)>> ELSE <<>>)
            \o SpokenBy(Tail(ls), name)

Range(q) == {q[i] : i \in 1..Len(q)}

\* _extract_lines_per_speaker
_extract_lines_per_speaker(ls, names) ==
    [name \in Range(names) |-> SpokenBy(ls, name)]

(***************************************************************************)
(* Inputs: scripts and voice maps                                          *)
(***************************************************************************)
MaxLines == 3

NameA == <<"A">>
NameBc == <<"B", " ", "c">>
NameEmpty == <<>>

\* the script line "[name]:" followed by body
Tag(name, body) == <<"[">> \o name \o <<"]", ":">> \o body

LinePool ==
    { Tag(NameA, <<" ", "h", "i">>),              \* "[A]: hi"
      Tag(NameA, <<"y", "o", " ">>),              \* "[A]:yo "
      <<" ">> \o Tag(NameBc, <<" ", "h", "i">>),  \* " [B c]: hi"
      Tag(NameBc, <<" ", "y", "o">>),             \* "[B c]: yo"
      Tag(NameEmpty, <<" ", "h", "i">>),          \* "[]: hi"
      <<"[">> \o NameA \o <<"]", " ", "y", "o">>, \* "[A] yo" (no colon)
      <<"n", "o", "t", "e">> }                    \* "note"

Scripts == UNION {[1..n -> LinePool] : n \in 0..MaxLines}

\* what the caller may pass for each key of voice_map (None: no entry)
VoiceChoices(k) ==
    CASE k = NameA -> {None, "", "v1"}
      [] k = NameBc -> {None, "", "v2"}
      [] OTHER -> {None, "v3"}

VoiceKeys == {NameA, NameBc, NameEmpty}

VoiceMaps ==
    {[k \in {x \in VoiceKeys : c[x] # None} |-> c[k]] :
        c \in {d \in [VoiceKeys -> {None, "", "v1", "v2", "v3"}] :
                 \A k \in VoiceKeys : d[k] \in VoiceChoices(k)}}

\* dict.get(key), and dict.get(key, default)
get(d, key, default) == IF key \in DOMAIN d THEN d[key] ELSE default

EmptyDict == <<>>

(***************************************************************************)
(* PodcastScriptProcessor: synthesis (audio-podcast-workflow.py 69-123)    *)
(***************************************************************************)
\* _sanitize_filename: re.sub(r'[^\w\-_.]', '_', name)
KeptInFilenames == WordChars \cup {"-", "_", "."}
_sanitize_filename(name) ==
    [i \in 1..Len(name) |->
        IF name[i] \in KeptInFilenames THEN name[i] ELSE "_"]

WavExt == <<".", "w", "a", "v">>

\* f"{line_number}_{speaker.lower()}.wav", sanitized
ClipFilename(n, speaker) ==
    _sanitize_filename(str(n) \o <<"_">> \o lower(speaker) \o WavExt)

\* the provider's audio for (text, voice): one clip
Synthesized(text, voice) == <<[text |-> text, voice |-> voice]>>

\* response.write_to_file(output_dir / filename): creates or overwrites
WriteFile(dir, name, audio) ==
    [f \in DOMAIN dir \cup {name} |->
        IF f = name THEN [audio |-> audio, ok |-> TRUE] ELSE dir[f]]

LogEntry(level, kind, n, file) ==
    [level |-> level, kind |-> kind, line |-> n, file |-> file]

\* __init__: read the script and run the three extraction passes
Construct ==
    /\ pc = "start"
    /\ speaker_names' = _extract_speaker_names(lines)
    /\ speaker_orders' = _extract_speaker_order(lines, speaker_names')
    /\ lines_per_speaker' = _extract_lines_per_speaker(lines, speaker_names')
    /\ pc' = "constructed"
    /\ UNCHANGED <<lines, voice_map, index_tracker, line_number, calls, files,
                   log>>
    /\ UNCHANGED <<asmVars, runVars>>

\* generate_audio, up to the loop
StartGenerate ==
    /\ pc = "constructed"
    /\ index_tracker' = [speaker \in Range(speaker_names) |-> 0]
    /\ line_number' = 1
    /\ pc' = "generating"
    /\ UNCHANGED <<lines, voice_map, speaker_names, speaker_orders,
                   lines_per_speaker, calls, files, log>>
    /\ UNCHANGED <<asmVars, runVars>>

InLoop == pc = "generating" /\ line_number <= Len(speaker_orders)

CurSpeaker == speaker_orders[line_number]
CurVoice == get(voice_map, CurSpeaker, None)
\* `not voice`: None or the empty string
NotVoice(voice) == voice = None \/ voice = ""
CurSpeakerLines == get(lines_per_speaker, CurSpeaker, <<>>)
CurSpeakerIndex == get(index_tracker, CurSpeaker, 0)

\* faulty variant of SkipNoVoice: the unvoiced line ends the loop (break for
\* continue)
SkipNoVoiceBreaks ==
    /\ InLoop
    /\ NotVoice(CurVoice)
    /\ log' = Append(log, LogEntry("WARNING", "no voice", line_number, <<>>))
    /\ pc' = "done"
    /\ UNCHANGED <<lines, voice_map, speaker_names, speaker_orders,
                   lines_per_speaker, index_tracker, line_number, calls, files>>
    /\ UNCHANGED <<asmVars, runVars>>

\* loop body, lines 77-81: no voice assigned
SkipNoVoice ==
    /\ InLoop
    /\ NotVoice(CurVoice)
    /\ log' = Append(log, LogEntry("WARNING", "no voice", line_number, <<>>))
    /\ line_number' = line_number + 1
    /\ UNCHANGED <<lines, voice_map, speaker_names, speaker_orders,
                   lines_per_speaker, index_tracker, pc, calls, files>>
    /\ UNCHANGED <<asmVars, runVars>>

\* loop body, lines 83-89: the speaker's cursor is past its lines
SkipOutOfBounds ==
    /\ InLoop
    /\ ~NotVoice(CurVoice)
    /\ CurSpeakerIndex >= Len(CurSpeakerLines)
    /\ log' = Append(log, LogEntry("WARNING", "out of bounds", line_number, <<>>))
    /\ line_number' = line_number + 1
    /\ UNCHANGED <<lines, voice_map, speaker_names, speaker_orders,
                   lines_per_speaker, index_tracker, pc, calls, files>>
    /\ UNCHANGED <<asmVars, runVars>>

\* faulty variant of AdvanceCursor: the cursor is left where it was
AdvanceCursorStuck(tracker, speaker) == tracker

\* the cursor after taking the speaker's line (line 92)
AdvanceCursor(tracker, speaker) ==
    [tracker EXCEPT ![speaker] = tracker[speaker] + 1]

\* faulty variant of Synthesize: the cursor advances only when the provider
\* call succeeds (the increment placed after the call)
SynthesizeAdvancingOnSuccess ==
    /\ InLoop
    /\ ~NotVoice(CurVoice)
    /\ CurSpeakerIndex < Len(CurSpeakerLines)
    /\ LET text == CurSpeakerLines[CurSpeakerIndex + 1]
           filename == ClipFilename(line_number, CurSpeaker)
       IN \E succeeds \in BOOLEAN :
            /\ calls' = Append(calls, [line_number |-> line_number,
                                       speaker |-> CurSpeaker,
                                       text |-> text, voice |-> CurVoice,
                                       filename |-> filename,
                                       ok |-> succeeds])
            /\ files' = IF succeeds
                        THEN WriteFile(files, filename,
                                       Synthesized(text, CurVoice))
                        ELSE files
            /\ log' = IF succeeds THEN log
                      ELSE Append(log, LogEntry("ERROR", "provider",
                                                line_number, filename))
            /\ index_tracker' = IF succeeds
                                THEN AdvanceCursor(index_tracker, CurSpeaker)
                                ELSE index_tracker
    /\ line_number' = line_number + 1
    /\ UNCHANGED <<lines, voice_map, speaker_names, speaker_orders,
                   lines_per_speaker, pc>>
    /\ UNCHANGED <<asmVars, runVars>>

\* loop body, lines 91-100: one provider call; it either returns audio, which
\* is written to the file, or raises, which is caught and logged
Synthesize ==
    /\ InLoop
    /\ ~NotVoice(CurVoice)
    /\ CurSpeakerIndex < Len(CurSpeakerLines)
    /\ LET text == CurSpeakerLines[CurSpeakerIndex + 1]
           filename == ClipFilename(line_number, CurSpeaker)
       IN \E succeeds \in BOOLEAN :
            /\ calls' = Append(calls, [line_number |-> line_number,
                                       speaker |-> CurSpeaker,
                                       text |-> text, voice |-> CurVoice,
                                       filename |-> filename,
                                       ok |-> succeeds])
            /\ files' = IF succeeds
                        THEN WriteFile(files, filename,
                                       Synthesized(text, CurVoice))
                        ELSE files
            /\ log' = IF succeeds THEN log
                      ELSE Append(log, LogEntry("ERROR", "provider",
                                                line_number, filename))
    /\ index_tracker' = AdvanceCursor(index_tracker, CurSpeaker)
    /\ line_number' = line_number + 1
    /\ UNCHANGED <<lines, voice_map, speaker_names, speaker_orders,
                   lines_per_speaker, pc>>
    /\ UNCHANGED <<asmVars, runVars>>

\* the loop is exhausted: generate_audio returns
FinishGenerate ==
    /\ pc = "generating"
    /\ line_number > Len(speaker_orders)
    /\ pc' = "done"
    /\ UNCHANGED <<lines, voice_map, speaker_names, speaker_orders,
                   lines_per_speaker, index_tracker, line_number, calls, files,
                   log>>
    /\ UNCHANGED <<asmVars, runVars>>

AsmIdle ==
    /\ audio_groups = EmptyDict
    /\ track = <<>>
    /\ runs = 0
    /\ loaded = FALSE
    /\ first = FALSE
    /\ prev_first = FALSE
    /\ dirty = FALSE
    /\ repeated = FALSE
    /\ prev_track = <<>>

InitSynth ==
    /\ lines \in Scripts
    /\ voice_map \in VoiceMaps
    /\ speaker_names = <<>>
    /\ speaker_orders = <<>>
    /\ lines_per_speaker = EmptyDict
    /\ index_tracker = EmptyDict
    /\ line_number = 0
    /\ pc = "start"
    /\ calls = <<>>
    /\ files = EmptyDict
    /\ log = <<>>
    /\ AsmIdle
    /\ synth_run = 1
    /\ before = EmptyDict

NextSynth ==
    \/ Construct
    \/ StartGenerate
    \/ SkipNoVoice
    \/ SkipOutOfBounds
    \/ Synthesize
    \/ FinishGenerate

SpecSynth == InitSynth /\ [][NextSynth]_vars

(***************************************************************************)
(* The script as the specification reads it (independent of the parser)    *)
(***************************************************************************)
\* t is '[' + one-or-more non-']' characters + ']:' + anything, with the
\* closing bracket at position j
ClosesAt(t, j) ==
    /\ j \in 3..(Len(t) - 1)
    /\ t[1] = "["
    /\ t[j] = "]"
    /\ t[j + 1] = ":"
    /\ \A i \in 2..(j - 1) : t[i] # "]"

IsTaggedLine(l) == \E j \in 1..Len(strip(l)) : ClosesAt(strip(l), j)

TaggedLine(l) ==
    LET t == strip(l)
        j == CHOOSE x \in 1..Len(t) : ClosesAt(t, x)
    IN [speaker |-> SubSeq(t, 2, j - 1),
        text |-> strip(SubSeq(t, j + 2, Len(t)))]

\* the tagged lines of a script, top to bottom: <<[speaker, text], ...>>
RECURSIVE Tagged(_)
Tagged(ls) ==
    IF Len(ls) = 0 THEN <<>>
    ELSE (IF IsTaggedLine(ls[1]) THEN <<TaggedLine(ls[1])>> ELSE <<>>)
         \o Tagged(Tail(ls))

\* the k-th smallest element of a set of numbers
KthOf(P, k) == CHOOSE i \in P : Cardinality({j \in P : j < i}) = k - 1

\* the speaker has a voice: voice_map holds a non-empty voice for it
Voiced(speaker) ==
    speaker \in DOMAIN voice_map /\ voice_map[speaker] # ""

\* the name n + '_' + lowercase(speaker) + '.wav'
PlainName(n, speaker) == str(n) \o <<"_">> \o lower(speaker) \o WavExt

\* that name with every character other than a word character, '-' and '.'
\* replaced by '_'
SafeChars == AsciiLetters \cup AsciiDigits \cup {"U+00E9", "_", "-", "."}
SafeName(n, speaker) ==
    LET raw == PlainName(n, speaker)
    IN [i \in 1..Len(raw) |-> IF raw[i] \in SafeChars THEN raw[i] ELSE "_"]

CallsFor(n) == {i \in 1..Len(calls) : calls[i].line_number = n}

(***************************************************************************)
(* C1                                                                      *)
(***************************************************************************)
\* C1: after construction, len(speaker_orders) is the number of lines that
\* match the tag grammar, every speaker s occurs in speaker_orders as often as
\* lines_per_speaker[s] is long, and the k-th occurrence of s is the tagged
\* line whose stripped text is lines_per_speaker[s][k].
C1_OrderMatchesTaggedLines ==
    pc # "start" =>
        LET T == Tagged(lines)
        IN /\ Len(speaker_orders) = Len(T)
           /\ \A s \in Range(speaker_orders) \cup DOMAIN lines_per_speaker :
                LET P == {i \in 1..Len(speaker_orders) : speaker_orders[i] = s}
                    L == get(lines_per_speaker, s, <<>>)
                IN /\ Cardinality(P) = Len(L)
                   /\ \A k \in 1..Len(L) :
                        /\ T[KthOf(P, k)].speaker = s
                        /\ T[KthOf(P, k)].text = L[k]

\* The same statement for scripts that hold at least one tagged line: it is
\* what the three passes do deliver.
C1_HoldsWithATaggedLine ==
    Len(Tagged(lines)) > 0 => C1_OrderMatchesTaggedLines

(***************************************************************************)
(* Assembler's clip pattern (cutting-podcast-workflow.py 12, 19-21)        *)
(***************************************************************************)
\* length of the longest run of characters of `class` in s from position i
RECURSIVE RunLength(_, _, _)
RunLength(s, i, class) ==
    IF i <= Len(s) /\ s[i] \in class THEN 1 + RunLength(s, i + 1, class) ELSE 0

NoClip == [matched |-> FALSE, index |-> 0, speaker |-> <<>>]

\* re.compile(r"(\d+)_([a-zA-Z]+)\.wav").match(filename), then
\* int(group(1)) and group(2).lower().  match anchors at the start only:
\* whatever follows ".wav" is accepted.  Both runs are greedy and what must
\* follow a run is not in its class, so giving characters back never helps.
pattern_match(filename) ==
    LET d == RunLength(filename, 1, AsciiDigits)
        a == RunLength(filename, d + 2, AsciiLetters)
    IN IF /\ d >= 1
          /\ d + 1 <= Len(filename)
          /\ filename[d + 1] = "_"
          /\ a >= 1
          /\ StartsWith(SubSeq(filename, d + 2 + a, Len(filename)), WavExt)
       THEN [matched |-> TRUE, index |-> int(SubSeq(filename, 1, d)),
             speaker |-> lower(SubSeq(filename, d + 2, d + 1 + a))]
       ELSE NoClip

(***************************************************************************)
(* C2                                                                      *)
(***************************************************************************)
AllVoiced == \A i \in 1..Len(speaker_orders) : Voiced(speaker_orders[i])
NoCallFailed == \A i \in 1..Len(calls) : calls[i].ok

\* one provider call per tagged line, in ascending line order, the n-th with
\* the text and voice of the n-th tagged line
CallsFollowScript ==
    LET T == Tagged(lines)
    IN /\ Len(calls) = Len(T)
       /\ \A n \in 1..Len(calls) :
            /\ calls[n].line_number = n
            /\ calls[n].text = T[n].text
            /\ calls[n].voice = voice_map[T[n].speaker]

\* exactly the clips names[n], n ranging over the tagged lines, are written,
\* each holding the audio of its own line
ClipsNamed(names) ==
    LET T == Tagged(lines)
    IN /\ DOMAIN files = {names[n] : n \in 1..Len(T)}
       /\ \A n \in 1..Len(T) :
            files[names[n]] =
                [audio |-> Synthesized(T[n].text, voice_map[T[n].speaker]),
                 ok |-> TRUE]

PlainNames == [n \in 1..Len(Tagged(lines)) |->
                 PlainName(n, Tagged(lines)[n].speaker)]
SafeNames == [n \in 1..Len(Tagged(lines)) |->
                SafeName(n, Tagged(lines)[n].speaker)]

\* C2 as stated: with every speaker voiced and no provider failure,
\* generate_audio makes one call per tagged line, in order, with that line's
\* text and its speaker's voice, and writes the clip named
\* n + '_' + lowercase(speaker) + '.wav'.
C2_ClipsUnderPlainNames ==
    (pc = "done" /\ AllVoiced /\ NoCallFailed) =>
        (CallsFollowScript /\ ClipsNamed(PlainNames))

\* C2 amended: the same, the clip being named by the sanitized name: n + '_' +
\* lowercase(speaker) + '.wav' with every character other than a word
\* character, '-' and '.' replaced by '_'.
C2_ClipsUnderSanitizedNames ==
    (pc = "done" /\ AllVoiced /\ NoCallFailed) =>
        (CallsFollowScript /\ ClipsNamed(SafeNames))

\* C2 witness: a finished run of three calls, two of them of one speaker with
\* different texts, and a speaker whose name is changed by sanitization
C2_Witness ==
    /\ pc = "done" /\ AllVoiced /\ NoCallFailed
    /\ Len(calls) = 3
    /\ calls[1].speaker = calls[3].speaker
    /\ calls[1].text # calls[3].text
    /\ calls[2].speaker = NameBc
    /\ calls[2].filename # PlainName(2, NameBc)
    /\ Cardinality(DOMAIN files) = 3

(***************************************************************************)
(* C4                                                                      *)
(***************************************************************************)
\* C4: every filename the synthesis driver writes is matched by the
\* assembler's clip pattern and parses back to (n, lowercase(speaker)).
C4_WrittenNamesParseBack ==
    \A i \in 1..Len(calls) :
        LET m == pattern_match(calls[i].filename)
        IN /\ m.matched
           /\ m.index = calls[i].line_number
           /\ m.speaker = lower(calls[i].speaker)

(***************************************************************************)
(* C5, C6                                                                  *)
(***************************************************************************)
Running == pc \in {"generating", "done"}

\* the lines of T (the tagged lines of the script) the loop has passed
Passed(T) == IF Running THEN {n \in 1..Len(T) : n < line_number} ELSE {}

\* line n of T was given exactly one provider call, under its own number and
\* sanitized name, with its own text and its speaker's voice
CalledOnceAsItself(T, n) ==
    /\ Cardinality(CallsFor(n)) = 1
    /\ \A i \in CallsFor(n) :
         /\ calls[i].text = T[n].text
         /\ calls[i].voice = voice_map[T[n].speaker]
         /\ calls[i].filename = SafeName(n, T[n].speaker)

\* the clip of line n of T is in the directory and holds the audio of line n
ClipInPlace(T, n) ==
    LET name == SafeName(n, T[n].speaker)
    IN /\ name \in DOMAIN files
       /\ files[name] =
            [audio |-> Synthesized(T[n].text, voice_map[T[n].speaker]),
             ok |-> TRUE]

Succeeded(n) == \E i \in CallsFor(n) : calls[i].ok

\* C5: a tagged line whose speaker has no voice gets no provider call and no
\* file and moves no cursor; the run goes on to the last line, and every line
\* of a voiced speaker is called under its position among all tagged lines
\* with its own text (its clip is written whenever the provider returns).
C5_UnvoicedLinesAreSkipped ==
    LET T == Tagged(lines)
        P == Passed(T)
        written == {m \in P : Voiced(T[m].speaker) /\ Succeeded(m)}
    IN /\ \A n \in P :
            IF Voiced(T[n].speaker)
            THEN CalledOnceAsItself(T, n) /\ (Succeeded(n) => ClipInPlace(T, n))
            ELSE /\ CallsFor(n) = {}
                 /\ SafeName(n, T[n].speaker) \notin DOMAIN files
       /\ DOMAIN files = {SafeName(n, T[n].speaker) : n \in written}
       /\ Running =>
            \A s \in DOMAIN index_tracker :
                index_tracker[s] =
                    Cardinality({n \in P : T[n].speaker = s /\ Voiced(s)})
       /\ pc = "generating" => ENABLED NextSynth
       /\ pc = "done" => P = 1..Len(T)

\* C5 witness: the script A, B c, A with only A voiced has finished with
\* exactly the clips 1_a.wav and 3_a.wav, of different texts
C5_Witness ==
    /\ pc = "done"
    /\ Len(Tagged(lines)) = 3
    /\ Tagged(lines)[2].speaker = NameBc
    /\ ~Voiced(NameBc)
    /\ Voiced(NameA)
    /\ DOMAIN files = {<<"1", "_", "a">> \o WavExt, <<"3", "_", "a">> \o WavExt}
    /\ files[<<"1", "_", "a">> \o WavExt] # files[<<"3", "_", "a">> \o WavExt]

\* C6: a failed provider call neither aborts the run nor is retried: no line
\* is called twice, calls go in ascending line order, at the end every voiced
\* line has had its one call under its own number with its own text, the clip
\* of every successful call stays in place, and a failed call leaves no file.
C6_FailureSkipsOnlyItsLine ==
    LET T == Tagged(lines)
    IN /\ \A i, j \in 1..Len(calls) :
            i < j => calls[i].line_number < calls[j].line_number
       /\ \A i \in 1..Len(calls) :
            /\ calls[i].line_number \in 1..Len(T)
            /\ IF calls[i].ok THEN ClipInPlace(T, calls[i].line_number)
               ELSE calls[i].filename \notin DOMAIN files
       /\ pc = "done" =>
            \A n \in 1..Len(T) :
                Voiced(T[n].speaker) => CalledOnceAsItself(T, n)
       /\ pc = "generating" => ENABLED NextSynth

\* C6 witness: three lines of one speaker; the call of line 2 failed, line 1's
\* clip is in place and line 3 was synthesized with its own text
C6_Witness ==
    /\ pc = "done"
    /\ Len(calls) = 3
    /\ calls[1].ok /\ ~calls[2].ok /\ calls[3].ok
    /\ calls[2].speaker = calls[3].speaker
    /\ calls[2].text # calls[3].text
    /\ ClipInPlace(Tagged(lines), 1) /\ ClipInPlace(Tagged(lines), 3)
    /\ Cardinality(DOMAIN files) = 2

(***************************************************************************)
(* AudioConcatenator (cutting-podcast-workflow.py 8-45)                    *)
(***************************************************************************)
MaxFiles == 3
MaxRuns == 3

FinalOutput ==
    <<"f", "i", "n", "a", "l", "_", "o", "u", "t", "p", "u", "t">> \o WavExt

FilePool ==
    { <<"1", "_", "a">> \o WavExt,                       \* 1_a.wav
      <<"2", "_", "b">> \o WavExt,                       \* 2_b.wav
      <<"1", "0", "_", "a">> \o WavExt,                  \* 10_a.wav
      <<"0", "1", "_", "a">> \o WavExt,                  \* 01_a.wav
      <<"1", "_", "A">> \o WavExt,                       \* 1_A.wav
      <<"1", "_", "b">> \o WavExt,                       \* 1_b.wav
      <<"1", "_", "a">> \o WavExt \o <<".", "b", "a", "k">> } \* 1_a.wav.bak

\* what a file of the pool holds: one clip, told apart by the file's name
PoolAudio(name) == <<[text |-> name, voice |-> "pool"]>>

Directories ==
    {[f \in S |-> [audio |-> PoolAudio(f), ok |-> TRUE]] :
        S \in {X \in SUBSET FilePool : Cardinality(X) <= MaxFiles}}

\* os.listdir: the entries, in arbitrary order
RECURSIVE Listings(_)
Listings(S) ==
    IF S = {} THEN {<<>>}
    ELSE UNION {{<<x>> \o q : q \in Listings(S \ {x})} : x \in S}

\* d[key] = value on an insertion-ordered dict, kept as <<[speaker, audio]>>:
\* an existing key keeps its place and takes the value, a new key goes last
DictSet(d, key, value) ==
    IF \E i \in 1..Len(d) : d[i].speaker = key
    THEN [i \in 1..Len(d) |->
            IF d[i].speaker = key THEN [speaker |-> key, audio |-> value]
            ELSE d[i]]
    ELSE Append(d, [speaker |-> key, audio |-> value])

\* self.audio_groups[index][speaker] = audio (a defaultdict(dict))
GroupSet(groups, index, speaker, audio) ==
    [k \in DOMAIN groups \cup {index} |->
        IF k = index THEN DictSet(get(groups, index, <<>>), speaker, audio)
        ELSE groups[k]]

\* one turn of the loop of load_audio_files on `filename`: st = [groups, out]
LoadOne(st, dir, filename) ==
    LET m == pattern_match(filename)
    IN IF ~m.matched THEN st
       ELSE IF dir[filename].ok
       THEN [groups |-> GroupSet(st.groups, m.index, m.speaker,
                                 dir[filename].audio),
             out |-> Append(st.out, LogEntry("INFO", "Loaded", 0, filename))]
       ELSE [groups |-> st.groups,
             out |-> Append(st.out,
                            LogEntry("WARNING", "Could not load", 0, filename))]

RECURSIVE LoadAll(_, _, _)
LoadAll(st, dir, names) ==
    IF Len(names) = 0 THEN st
    ELSE LoadAll(LoadOne(st, dir, names[1]), dir, Tail(names))

\* load_audio_files, the directory listing being `listing`
load_audio_files(groups, out, dir, listing) ==
    LoadAll([groups |-> groups, out |-> out], dir, sorted_list(listing))

\* the numbers of S in ascending order
RECURSIVE SortedInts(_)
SortedInts(S) ==
    IF S = {} THEN <<>>
    ELSE LET m == CHOOSE x \in S : \A y \in S : x <= y
         IN <<m>> \o SortedInts(S \ {m})

RECURSIVE ConcatGroup(_)
ConcatGroup(d) ==
    IF Len(d) = 0 THEN <<>> ELSE d[1].audio \o ConcatGroup(Tail(d))

RECURSIVE ConcatGroups(_, _)
ConcatGroups(groups, keys) ==
    IF Len(keys) = 0 THEN <<>>
    ELSE ConcatGroup(groups[keys[1]]) \o ConcatGroups(groups, Tail(keys))

\* concatenate_audio
concatenate_audio(groups) == ConcatGroups(groups, SortedInts(DOMAIN groups))

\* AudioConcatenator(audio_dir): a new object replaces the current one
NewConcatenator ==
    /\ pc = "assembly"
    /\ loaded
    /\ audio_groups' = EmptyDict
    /\ loaded' = FALSE
    /\ UNCHANGED <<track, runs, first, prev_first, dirty, repeated, prev_track,
                   files, log, pc>>
    /\ UNCHANGED <<synthVars, runVars>>

\* export_final_audio() with the default output_filename: load, concatenate,
\* write final_output.wav
ExportFinalAudio ==
    /\ pc = "assembly"
    /\ runs < MaxRuns
    /\ \E listing \in Listings(DOMAIN files) :
         LET result == load_audio_files(audio_groups, <<>>, files, listing)
             combined_audio == concatenate_audio(result.groups)
         IN /\ audio_groups' = result.groups
            /\ log' = result.out
            /\ track' = combined_audio
            /\ files' = WriteFile(files, FinalOutput, combined_audio)
    /\ runs' = runs + 1
    /\ first' = ~loaded
    /\ loaded' = TRUE
    /\ prev_first' = first
    /\ prev_track' = track
    /\ repeated' = (runs >= 1 /\ ~dirty)
    /\ dirty' = FALSE
    /\ UNCHANGED pc
    /\ UNCHANGED <<synthVars, runVars>>

\* a clip file of the directory is deleted
RemoveFile ==
    /\ pc = "assembly"
    /\ \E f \in DOMAIN files \ {FinalOutput} :
         files' = [g \in DOMAIN files \ {f} |-> files[g]]
    /\ dirty' = TRUE
    /\ UNCHANGED <<audio_groups, track, runs, loaded, first, prev_first,
                   repeated, prev_track, log, pc>>
    /\ UNCHANGED <<synthVars, runVars>>

\* a clip file of the directory stops being decodable (AudioSegment.from_wav
\* raises on it)
CorruptFile ==
    /\ pc = "assembly"
    /\ \E f \in DOMAIN files \ {FinalOutput} :
         /\ files[f].ok
         /\ files' = [files EXCEPT ![f].ok = FALSE]
    /\ dirty' = TRUE
    /\ UNCHANGED <<audio_groups, track, runs, loaded, first, prev_first,
                   repeated, prev_track, log, pc>>
    /\ UNCHANGED <<synthVars, runVars>>

InitAsm ==
    /\ pc = "assembly"
    /\ files \in Directories
    /\ log = <<>>
    /\ AsmIdle
    /\ lines = <<>>
    /\ voice_map = EmptyDict
    /\ speaker_names = <<>>
    /\ speaker_orders = <<>>
    /\ lines_per_speaker = EmptyDict
    /\ index_tracker = EmptyDict
    /\ line_number = 0
    /\ calls = <<>>
    /\ synth_run = 0
    /\ before = EmptyDict

NextAsm ==
    \/ ExportFinalAudio
    \/ NewConcatenator
    \/ RemoveFile
    \/ CorruptFile

SpecAsm == InitAsm /\ [][NextAsm]_vars

(***************************************************************************)
(* Clip names as the specification reads them                              *)
(***************************************************************************)
\* name is d digits, '_', a ASCII letters, '.wav' and, unless `whole`,
\* anything after that
ClipShape(name, d, a, whole) ==
    /\ d >= 1 /\ a >= 1
    /\ Len(name) >= d + 1 + a + 4
    /\ whole => Len(name) = d + 1 + a + 4
    /\ \A i \in 1..d : name[i] \in AsciiDigits
    /\ name[d + 1] = "_"
    /\ \A i \in (d + 2)..(d + 1 + a) : name[i] \in AsciiLetters
    /\ SubSeq(name, d + 2 + a, d + 1 + a + 4) = WavExt

\* ^(\d+)_([A-Za-z]+)\.wav$
IsWholeClipName(name) ==
    \E d, a \in 1..Len(name) : ClipShape(name, d, a, TRUE)

\* the name starts like a clip name (what the loaded pattern accepts)
IsClipName(name) ==
    \E d, a \in 1..Len(name) : ClipShape(name, d, a, FALSE)

ClipKey(name) ==
    LET da == CHOOSE x \in (1..Len(name)) \X (1..Len(name)) :
                 ClipShape(name, x[1], x[2], FALSE)
    IN [index |-> int(SubSeq(name, 1, da[1])),
        speaker |-> lower(SubSeq(name, da[1] + 2, da[1] + 1 + da[2]))]

\* the decodable clip files of the directory
Clips == {f \in DOMAIN files : IsClipName(f) /\ files[f].ok}

\* their contents joined in ascending order of the leading number
RECURSIVE InNumberOrder(_)
InNumberOrder(S) ==
    IF S = {} THEN <<>>
    ELSE LET f == CHOOSE x \in S :
                    \A y \in S : ClipKey(x).index <= ClipKey(y).index
         IN files[f].audio \o InNumberOrder(S \ {f})

DistinctNumbers ==
    \A f, g \in {x \in DOMAIN files : IsClipName(x)} :
        f # g => ClipKey(f).index # ClipKey(g).index

\* a run has ended and the directory's clip files are as that run found them
AfterRun == runs >= 1 /\ ~dirty

\* and audio_groups is still what that run left
GroupsOfRun == AfterRun /\ loaded

(***************************************************************************)
(* C3                                                                      *)
(***************************************************************************)
\* C3: when the clip files of the directory have pairwise distinct line
\* numbers, the assembled track is their decoded contents joined in ascending
\* numeric order of the leading integer, whatever the listing order.
C3_TrackInNumericOrder ==
    (AfterRun /\ DistinctNumbers) => track = InNumberOrder(Clips)

\* The same statement for the first run of an AudioConcatenator: it is what
\* a freshly constructed object delivers.
C3_HoldsOnFirstRun ==
    first => C3_TrackInNumericOrder

(***************************************************************************)
(* C7                                                                      *)
(***************************************************************************)
Restrict(dir, S) == [f \in DOMAIN dir \cap S |-> dir[f]]

\* the track a first run assembles from directory dir
FirstRunTrack(dir) ==
    concatenate_audio(
        load_audio_files(EmptyDict, <<>>, dir, sorted(DOMAIN dir)).groups)

\* C7: an entry whose whole name does not match ^digits_letters.wav$ is never
\* decoded (every decode is logged) and does not change the assembled track.
C7_OnlyWholeClipNamesAreLoaded ==
    AfterRun =>
        /\ \A i \in 1..Len(log) : IsWholeClipName(log[i].file)
        /\ first =>
             track = FirstRunTrack(
                        Restrict(files, {f \in DOMAIN files : IsWholeClipName(f)}))

(***************************************************************************)
(* C8                                                                      *)
(***************************************************************************)
SameKey(f) == {g \in Clips : ClipKey(g) = ClipKey(f)}

Latest(S) == CHOOSE g \in S : \A h \in S \ {g} : StrLess(h, g)

\* C8: when several decodable files parse to one (line number, lowercased
\* speaker) key, the group holds one clip for the key, the content of the
\* file that sorts last, and a warning reports the overwrite.
C8_LastFileWinsWithWarning ==
    GroupsOfRun =>
        \A f \in Clips :
            Cardinality(SameKey(f)) >= 2 =>
                LET key == ClipKey(f)
                    group == get(audio_groups, key.index, <<>>)
                    held == {i \in 1..Len(group) : group[i].speaker = key.speaker}
                IN /\ Cardinality(held) = 1
                   /\ \A i \in held : group[i].audio = files[Latest(SameKey(f))].audio
                   /\ \E i \in 1..Len(log) :
                        /\ log[i].level = "WARNING"
                        /\ log[i].file \in SameKey(f)

\* The same statement without the warning: it is what the loader delivers.
C8_LastFileWins ==
    GroupsOfRun =>
        \A f \in Clips :
            Cardinality(SameKey(f)) >= 2 =>
                LET key == ClipKey(f)
                    group == get(audio_groups, key.index, <<>>)
                    held == {i \in 1..Len(group) : group[i].speaker = key.speaker}
                IN /\ Cardinality(held) = 1
                   /\ \A i \in held : group[i].audio = files[Latest(SameKey(f))].audio

(***************************************************************************)
(* C9                                                                      *)
(***************************************************************************)
\* C9: the groups and the output of a run hold only clips of files that are
\* present and decodable at that run.
C9_GroupsReflectDirectory ==
    AfterRun =>
        /\ loaded => \A k \in DOMAIN audio_groups :
             \A i \in 1..Len(audio_groups[k]) :
                \E f \in Clips :
                    /\ ClipKey(f) = [index |-> k,
                                     speaker |-> audio_groups[k][i].speaker]
                    /\ files[f].audio = audio_groups[k][i].audio
        /\ \A i \in 1..Len(track) :
             \E f \in Clips : track[i] \in Range(files[f].audio)

(***************************************************************************)
(* C10                                                                     *)
(***************************************************************************)
\* C10: a run that finds the clip files as the run before it left them
\* produces the same track, and final_output.wav is not loaded as a clip.
C10_RepeatedRunSameTrack ==
    /\ \A i \in 1..Len(log) : log[i].file # FinalOutput
    /\ (runs >= 2 /\ repeated) => track = prev_track

\* The same statement for two runs of one AudioConcatenator, or of two
\* freshly constructed ones: it is what the code delivers.
C10_HoldsOnOneOrFreshObjects ==
    (~first \/ prev_first) => C10_RepeatedRunSameTrack

(***************************************************************************)
(* The two programs on one directory: synthesis runs, then assembly        *)
(***************************************************************************)
MaxPipelineLines == 2
MaxSynthRuns == 2

\* the scripts and voice maps of the synthesis runs that share a directory
PipelineLinePool ==
    { Tag(NameA, <<" ", "h", "i">>),              \* "[A]: hi"
      Tag(NameBc, <<" ", "y", "o">>),             \* "[B c]: yo"
      Tag(NameEmpty, <<" ", "h", "i">>) }         \* "[]: hi"

PipelineScripts == UNION {[1..n -> PipelineLinePool] : n \in 0..MaxPipelineLines}

PipelineVoiceMaps ==
    {m \in VoiceMaps : \A k \in DOMAIN m : m[k] # ""}

\* main() once more, with another script and voice map and the same
\* output_dir: mkdir(exist_ok=True) leaves the directory as it is
RunAgain ==
    /\ pc = "done"
    /\ synth_run < MaxSynthRuns
    /\ lines' \in PipelineScripts
    /\ voice_map' \in PipelineVoiceMaps
    /\ speaker_names' = <<>>
    /\ speaker_orders' = <<>>
    /\ lines_per_speaker' = EmptyDict
    /\ index_tracker' = EmptyDict
    /\ line_number' = 0
    /\ calls' = <<>>
    /\ log' = <<>>
    /\ pc' = "start"
    /\ synth_run' = synth_run + 1
    /\ before' = files
    /\ UNCHANGED files
    /\ UNCHANGED asmVars

\* cutting-podcast-workflow.py is started on the directory:
\* AudioConcatenator(audio_dir)
StartAssembly ==
    /\ pc = "done"
    /\ pc' = "assembly"
    /\ audio_groups' = EmptyDict
    /\ UNCHANGED <<track, runs, loaded, first, prev_first, dirty, repeated,
                   prev_track, files, log>>
    /\ UNCHANGED <<synthVars, runVars>>

InitPipeline ==
    /\ lines \in PipelineScripts
    /\ voice_map \in PipelineVoiceMaps
    /\ speaker_names = <<>>
    /\ speaker_orders = <<>>
    /\ lines_per_speaker = EmptyDict
    /\ index_tracker = EmptyDict
    /\ line_number = 0
    /\ pc = "start"
    /\ calls = <<>>
    /\ files = EmptyDict
    /\ log = <<>>
    /\ AsmIdle
    /\ synth_run = 1
    /\ before = EmptyDict

NextPipeline ==
    \/ Construct
    \/ StartGenerate
    \/ SkipNoVoice
    \/ SkipOutOfBounds
    \/ Synthesize
    \/ FinishGenerate
    \/ RunAgain
    \/ StartAssembly
    \/ ExportFinalAudio

SpecPipeline == InitPipeline /\ [][NextPipeline]_vars

(***************************************************************************)
(* C11                                                                     *)
(***************************************************************************)
\* the files the current synthesis run has written: one per successful call
Written == {calls[i].filename : i \in {j \in 1..Len(calls) : calls[j].ok}}

\* the line number a clip file is named for: its leading digits
NumberOf(f) == int(SubSeq(f, 1, RunLength(f, 1, AsciiDigits)))

\* the current synthesis run has synthesized line n successfully
Resynthesized(n) ==
    \E i \in 1..Len(calls) : calls[i].ok /\ calls[i].line_number = n

\* the files an earlier synthesis run left whose line number the current one
\* has not synthesized successfully
Leftovers ==
    {f \in DOMAIN before :
        RunLength(f, 1, AsciiDigits) >= 1 /\ ~Resynthesized(NumberOf(f))}

\* the latest assembly run loaded file f and its clip is part of the track
Included(f) ==
    /\ \E i \in 1..Len(log) :
         log[i].level = "INFO" /\ log[i].kind = "Loaded" /\ log[i].file = f
    /\ \A i \in 1..Len(files[f].audio) : files[f].audio[i] \in Range(track)

\* a synthesis run creates or overwrites only the files it writes for its
\* successful lines and removes nothing
SynthesisTouchesOnlyWritten ==
    /\ \A f \in DOMAIN before :
         f \in DOMAIN files /\ (files[f] # before[f] => f \in Written)
    /\ \A f \in DOMAIN files \ (DOMAIN before \cup {FinalOutput}) : f \in Written

\* an assembly run has followed the synthesis runs
Assembled == pc = "assembly" /\ runs >= 1

\* C11: a synthesis run creates or overwrites only the files named for the
\* lines it synthesizes successfully and removes nothing else; so a clip file
\* left by an earlier run whose line number the later run does not synthesize
\* successfully is still there, unchanged, and the assembly run that follows
\* includes it.
C11_LeftoversKeptAndAssembled ==
    /\ SynthesisTouchesOnlyWritten
    /\ \A f \in Leftovers : f \in DOMAIN files /\ files[f] = before[f]
    /\ Assembled => \A f \in Leftovers : Included(f)

\* The same statement with the assembly run including the leftover files
\* whose names its pattern accepts: it is what the code delivers.
C11_LeftoverClipNamesAssembled ==
    /\ SynthesisTouchesOnlyWritten
    /\ \A f \in Leftovers : f \in DOMAIN files /\ files[f] = before[f]
    /\ Assembled => \A f \in Leftovers : IsClipName(f) => Included(f)

\* after a second synthesis run that wrote a clip, a leftover of the first is
\* part of the assembled track
C11_LeftoverAssembled ==
    /\ Assembled
    /\ synth_run = 2
    /\ Written # {}
    /\ \E f \in Leftovers : IsClipName(f) /\ Included(f)

====
